---- MODULE Spec2Model ----
(***************************************************************************)
(* A model of the JSON-Schema viewer's row layer:                          *)
(*   - components/shared/Validations.tsx : the validation extractor and    *)
(*     the three-bucket presenter;                                         *)
(*   - SchemaRow.tsx (src/unnamed/part_001) : isRequired, the combiner     *)
(*     options, the branch-selection handler and the row renderer;         *)
(*   - SchemaTree.tsx (src/unnamed/part_000) : the tree host's effect      *)
(*     (node-click subscription, dispose on cleanup).                      *)
(* Five specifications share the module: Spec (the tree host and its      *)
(* rows), SpecHost (the host re-bound between two stores), SpecRequired    *)
(* (isRequired over drawn nodes), SpecExtract (getValidationsFromSchema)   *)
(* and SpecPresent (the Validations partition).                            *)
(***************************************************************************)
EXTENDS Integers, Sequences, FiniteSets, TLC

VARIABLES
    \* ---- the tree host and its rows
    metadataStore,   \* tree/metadata WeakMap: node -> schema metadata | error
    nodeMetadata,    \* node.metadata of every tree-list node
    available,       \* the tree stores the host application constructed
    bound,           \* the store the mounted SchemaTree is bound to (0: none)
    disposed,        \* stores on which dispose() was called
    handlers,        \* store -> number of NodeClick listeners registered
    expanded,        \* store -> node -> expand flag kept by the tree store
    children,        \* store -> node -> the node's `children` property
    choices,         \* store -> ChoiceState of the store's tree
    written,         \* history: store -> node id -> last index given to setChoiceForNode (-1: never)
    event,           \* the last event handled
    calls,           \* the calls the last handler made on its collaborators, in order
    row,             \* what the last row render produced
    \* ---- isRequired
    treeNode,        \* the node handed to isRequired
    required,        \* what isRequired returned for it
    \* ---- getValidationsFromSchema
    schemaNode,      \* the schema node handed to the extractor
    extracted,       \* the mappings the extractor returned so far
    \* ---- Validations
    validations,     \* the `validations` prop
    hideExamples,    \* the `hideExamples` prop
    buckets          \* the three buckets the component handed to its children

treeVars == <<metadataStore, nodeMetadata, available, bound, disposed, handlers,
              expanded, children, choices, written, event, calls, row>>
requiredVars == <<treeNode, required>>
extractVars == <<schemaNode, extracted>>
presentVars == <<validations, hideExamples, buckets>>
pureVars == <<requiredVars, extractVars, presentVars>>
vars == <<treeVars, pureVars>>

(***************************************************************************)
(* JavaScript values.  A number is named by the text String() gives it, so *)
(* two numbers are === exactly when their texts are equal; an array is its *)
(* elements.                                                               *)
(***************************************************************************)
UNDEFINED == [t |-> "undefined"]
NULL == [t |-> "null"]
Num(s) == [t |-> "number", v |-> s]
Str(s) == [t |-> "string", v |-> s]
Bool(s) == [t |-> "boolean", v |-> s]
Arr(es) == [t |-> "array", elems |-> es]

\* JavaScript truthiness (`x ? a : b`, `x && y`).
Truthy(v) ==
    CASE v.t \in {"undefined", "null"} -> FALSE
      [] v.t = "boolean" -> v.v = "true"
      [] v.t = "number" -> v.v \notin {"0", "NaN"}
      [] v.t = "string" -> v.v # ""
      [] OTHER -> TRUE

\* String(v) as the sequence of its text pieces: a scalar is its own text, an
\* array is its elements' texts joined by ",", null and undefined elements
\* giving the empty text.
ScalarText(v) ==
    CASE v.t \in {"number", "string", "boolean"} -> IF v.v = "" THEN <<>> ELSE <<v.v>>
      [] v.t = "null" -> <<"null">>
      [] OTHER -> <<"undefined">>

RECURSIVE JoinTexts(_)
JoinTexts(es) ==
    IF es = <<>> THEN <<>>
    ELSE LET e == Head(es)
             head == IF e.t \in {"null", "undefined"} THEN <<>> ELSE ScalarText(e)
         IN IF Len(es) = 1 THEN head ELSE head \o <<",">> \o JoinTexts(Tail(es))

String(v) == IF v.t = "array" THEN JoinTexts(v.elems) ELSE ScalarText(v)

(***************************************************************************)
(* Dictionaries (plain objects): functions from the keys present.          *)
(***************************************************************************)
EmptyDict == [k \in {} |-> NULL]
keys(d) == DOMAIN d
Merge(a, b) == [k \in DOMAIN a \cup DOMAIN b |-> IF k \in DOMAIN b THEN b[k] ELSE a[k]]
Range(seq) == {seq[i] : i \in DOMAIN seq}
pick(d, names) == [k \in DOMAIN d \cap names |-> d[k]]
omit(d, names) == [k \in DOMAIN d \ names |-> d[k]]
pickBy(d, predicate) == [k \in {x \in DOMAIN d : predicate[x]} |-> d[k]]

(***************************************************************************)
(* components/shared/Validations.tsx                                       *)
(***************************************************************************)
numberValidationNames ==
    <<"minimum", "maximum", "minLength", "maxLength", "minItems", "maxItems",
      "exclusiveMinimum", "exclusiveMaximum">>

exampleValidationNames == <<"examples">>

excludedValidations == <<"exclusiveMinimum", "exclusiveMaximum", "readOnly", "writeOnly">>

\* The numbers are the doubles the expressions evaluate to: 2 ** 63 - 1 and
\* 2 ** 128 - 1 round to 2 ** 63 and 2 ** 128.
oasFormats ==
    [f \in {"int32", "int64", "float", "double", "byte"} |->
        CASE f = "int32" ->
                 [k \in {"minimum", "maximum"} |->
                     IF k = "minimum" THEN Num("-2147483648") ELSE Num("2147483647")]
          [] f = "int64" ->
                 [k \in {"minimum", "maximum"} |->
                     IF k = "minimum" THEN Num("-9223372036854776000")
                     ELSE Num("9223372036854776000")]
          [] f = "float" ->
                 [k \in {"minimum", "maximum"} |->
                     IF k = "minimum" THEN Num("-3.402823669209385e+38")
                     ELSE Num("3.402823669209385e+38")]
          [] f = "double" ->
                 [k \in {"minimum", "maximum"} |->
                     IF k = "minimum" THEN Num("-1.7976931348623157e+308")
                     ELSE Num("1.7976931348623157e+308")]
          [] OTHER -> [k \in {"pattern"} |-> Str("^[\\w\\d+\\/=]*$")]]

\* Property names every object inherits: `format in oasFormats` is true of
\* them, and Object.entries of what they name is empty.
InheritedNames == {"constructor", "toString"}

\* filterOutOasFormatValidations deleting the preset's keys whatever their values.
filterOutOasFormatValidations_AnyValue(format, values) ==
    IF format \notin DOMAIN oasFormats \cup InheritedNames
    THEN [ret |-> values, values |-> values]
    ELSE LET entries == IF format \in DOMAIN oasFormats THEN oasFormats[format] ELSE EmptyDict
         IN [ret |-> omit(values, DOMAIN entries), values |-> values]

\* Returns the mapping and, beside it, the argument object as the call left it.
filterOutOasFormatValidations(format, values) ==
    IF format \notin DOMAIN oasFormats \cup InheritedNames
    THEN [ret |-> values, values |-> values]
    ELSE LET entries == IF format \in DOMAIN oasFormats THEN oasFormats[format] ELSE EmptyDict
             deleted == {k \in DOMAIN entries : k \in DOMAIN values /\ entries[k] = values[k]}
         IN [ret |-> omit(values, deleted), values |-> values]

getFilteredValidations(node) ==
    IF node.format # NULL
    THEN filterOutOasFormatValidations(node.format.v, node.validations)
    ELSE [ret |-> node.validations, values |-> node.validations]

\* Returns the mapping and the schema node as the call left it.
getValidationsFromSchema(node) ==
    LET enumPart == IF node.enum # NULL THEN [k \in {"enum"} |-> node.enum] ELSE EmptyDict
        defaultPart ==
            IF node.hasAnnotations /\ Truthy(node.annotations.default)
            THEN [k \in {"default"} |-> node.annotations.default] ELSE EmptyDict
        examplesPart ==
            IF node.hasAnnotations /\ Truthy(node.annotations.examples)
            THEN [k \in {"examples"} |-> node.annotations.examples] ELSE EmptyDict
        filtered == getFilteredValidations(node)
    IN [ret |-> Merge(Merge(enumPart, Merge(defaultPart, examplesPart)), filtered.ret),
        node |-> [node EXCEPT !.validations = filtered.values]]

StringifiesToBoolean(v) == String(v) \in {<<"true">>, <<"false">>}

\* The three mappings the Validations component hands to NumberValidations,
\* KeyValueValidations and NameValidations.
Validations(vals, hide) ==
    LET numberValidations == pick(vals, Range(numberValidationNames))
        booleanValidations ==
            omit(pickBy(vals, [k \in DOMAIN vals |-> StringifiesToBoolean(vals[k])]),
                 Range(excludedValidations))
        keyValueValidations ==
            omit(vals, keys(numberValidations) \cup keys(booleanValidations)
                         \cup Range(excludedValidations)
                         \cup (IF hide THEN Range(exampleValidationNames) ELSE {}))
    IN [number |-> numberValidations,
        keyValue |-> keyValueValidations,
        boolean |-> booleanValidations]

(***************************************************************************)
(* Schema fragments, schema-tree nodes and the metadata store.             *)
(***************************************************************************)
\* A JSONSchema4 fragment, by the three keywords the row layer reads.
Schema(type, req, items) == [t |-> "schema", type |-> type, required |-> req, items |-> items]

isArray(v) == v.t = "array"

\* utils/getPrimaryType: the fragment's type.
getPrimaryType(schema) == schema.type

\* utils/guards isArrayNodeWithItems: an array node that declares items.
isArrayNodeWithItems(sn) == getPrimaryType(sn) = Str("array") /\ sn.items # UNDEFINED

\* An entry of the metadata store: the schema variant or the error variant.
SchemaEntry(schema, path) ==
    [kind |-> "schema", schemaNode |-> schema, schema |-> schema, path |-> path]
ErrorEntry(message) == [kind |-> "error", error |-> message]
MissingEntry == [kind |-> "missing"]

\* A tree-list node: its id, its parent (NULL for the tree's root), its entry
\* in the metadata store and its own `metadata` property.
TreeNode(id, parent, entry, metadata) ==
    [id |-> id, parent |-> parent, entry |-> entry, metadata |-> metadata]

\* The result of a call that may throw.
Thrown == [thrown |-> TRUE]
Return(v) == [thrown |-> FALSE, value |-> v]

\* tree/metadata getNodeMetadata: throws when the store holds nothing for the node.
getNodeMetadata(node) ==
    IF node.entry.kind = "missing" THEN Thrown ELSE Return(node.entry)

\* tree/metadata getSchemaNodeMetadata: throws unless the entry is the schema variant.
getSchemaNodeMetadata(node) ==
    LET m == getNodeMetadata(node)
    IN IF m.thrown \/ m.value.kind # "schema" THEN Thrown ELSE m

(***************************************************************************)
(* SchemaRow.tsx: the required check.                                      *)
(***************************************************************************)
\* getRelevantSchemaForRequireCheck without the array-items indirection.
getRelevantSchemaForRequireCheck_NoItems(node) ==
    LET m == getNodeMetadata(node)
    IN IF m.thrown THEN Thrown
       ELSE IF m.value.kind # "schema" THEN Return(NULL)
       ELSE Return(m.value.schema)

getRelevantSchemaForRequireCheck(node) ==
    LET m == getNodeMetadata(node)
    IN IF m.thrown THEN Thrown
       ELSE IF m.value.kind # "schema" THEN Return(NULL)
       ELSE IF isArrayNodeWithItems(m.value.schemaNode)
            THEN Return(m.value.schemaNode.items)
            ELSE Return(m.value.schema)

\* Array.prototype.includes of a text among the elements of a list.
includes(list, text) ==
    \E i \in DOMAIN list.elems :
        list.elems[i].t = "string" /\ ScalarText(list.elems[i]) = text

isRequired(node) ==
    IF node.parent = NULL THEN FALSE
    ELSE LET m == getSchemaNodeMetadata(node)
         IN IF m.thrown THEN FALSE
            ELSE LET path == m.value.path
                 IN IF Len(path) = 0 THEN FALSE
                    ELSE LET schema == getRelevantSchemaForRequireCheck(node.parent)
                         IN IF schema.thrown THEN FALSE
                            ELSE /\ schema.value # NULL
                                 /\ ~isArray(schema.value)
                                 /\ getPrimaryType(schema.value) = Str("object")
                                 /\ isArray(schema.value.required)
                                 /\ includes(schema.value.required, String(path[Len(path)]))


(***************************************************************************)
(* The parts of the state a specification does not use stay as they are.   *)
(***************************************************************************)
IdleTree ==
    /\ metadataStore = <<>> /\ nodeMetadata = <<>> /\ available = {} /\ bound = 0
    /\ disposed = {} /\ handlers = <<>> /\ expanded = <<>> /\ children = <<>>
    /\ choices = <<>> /\ written = <<>> /\ event = [type |-> "none"] /\ calls = <<>>
    /\ row = [kind |-> "none"]
IdleRequired == treeNode = NULL /\ required = <<>>
IdleExtract == schemaNode = NULL /\ extracted = <<>>
IdlePresent == validations = EmptyDict /\ hideExamples = FALSE /\ buckets = <<>>

(***************************************************************************)
(* The tree: a root (node 0, no metadata, level -1), the top-level schema  *)
(* node 1 and its property nodes.                                          *)
(***************************************************************************)
Stores == {1, 2}
Nodes == {0, 1, 2, 3}
Rows == Nodes \ {0}
PropertyNodes == Nodes \ {0, 1}
MaxBranches == 2

Parent(n) == n \div 2
PropertyNames == <<"id", "name">>

\* Tree.getLevel of tree-list: the root is at level -1.
RECURSIVE getLevel(_)
getLevel(n) == IF n = 0 THEN 0 - 1 ELSE getLevel(Parent(n)) + 1

\* The tree-list node n, with its chain of parents.
RECURSIVE NodeOf(_)
NodeOf(n) ==
    TreeNode(n, IF n = 0 THEN NULL ELSE NodeOf(Parent(n)), metadataStore[n], nodeMetadata[n])

StaticChildren(n) ==
    LET cs == {c \in Rows : Parent(c) = n}
    IN [i \in 1..Cardinality(cs) |->
           [node |-> CHOOSE c \in cs : Cardinality({d \in cs : d < c}) = i - 1]]

\* isParentNode of tree-list: the node has a `children` property.
isParentNode(ch) == ch # UNDEFINED

(***************************************************************************)
(* ChoiceState (tree.state): node id -> chosen branch index, default 0.    *)
(***************************************************************************)
EmptyChoiceState == [x \in {} |-> 0]
getChoiceForNode(state, id) == IF id \in DOMAIN state THEN state[id] ELSE 0
setChoiceForNode(state, id, index) ==
    [x \in DOMAIN state \cup {id} |-> IF x = id THEN index ELSE state[x]]

(***************************************************************************)
(* SchemaRow.tsx: combiner options, the row and the selection handler.     *)
(***************************************************************************)
Obj(fields) == [t |-> "object", fields |-> fields]

\* A branch schema object; `ref` is the object's identity.
BranchSchema(ref) ==
    [t |-> "schema", ref |-> ref,
     type |-> IF ref = 1 THEN Str("object") ELSE Str("string"),
     required |-> UNDEFINED, items |-> UNDEFINED]

getCombinerOptions(node) ==
    IF node.metadata.t \in {"object", "array", "null"} /\ node.metadata # NULL
    THEN IF "properties" \in DOMAIN node.metadata.fields
         THEN node.metadata.fields["properties"] ELSE UNDEFINED
    ELSE Arr(<<>>)

\* Array.prototype.indexOf: the first position (from 0) holding the item, or -1.
indexOf(elems, item) ==
    IF \E i \in DOMAIN elems : elems[i] = item
    THEN (CHOOSE i \in DOMAIN elems :
              elems[i] = item /\ \A j \in DOMAIN elems : elems[j] = item => i <= j) - 1
    ELSE 0 - 1

\* String(index) of a small integer.
NumberText(i) ==
    IF i < 0 THEN "-1" ELSE <<"0", "1", "2", "3", "4", "5", "6", "7", "8", "9">>[i + 1]

\* chosenPropertyIndex reading under the parent's id.
chosenPropertyIndex_ParentId(state, node) ==
    IF node.parent = NULL THEN 0 ELSE getChoiceForNode(state, node.parent.id)

\* The index the row reads for its node.
chosenPropertyIndex(state, node) == getChoiceForNode(state, node.id)

\* items[chosenPropertyIndex].type of the button: throws when items is
\* undefined or holds nothing at the index.
ButtonText(items, index) ==
    IF items = UNDEFINED THEN Thrown
    ELSE IF index + 1 \notin DOMAIN items.elems THEN Thrown
    ELSE Return(items.elems[index + 1].type)

ExceptionRow == [kind |-> "exception"]
SchemaErrorRow(message) == [kind |-> "error", message |-> message]

SchemaPropertyRow(node, state) ==
    LET metadata == getSchemaNodeMetadata(node)
        parentSchemaNode ==
            IF node.parent # NULL /\ getLevel(node.parent.id) >= 0
            THEN getSchemaNodeMetadata(node.parent) ELSE Return(NULL)
        chosen == chosenPropertyIndex(state, node)
        items == getCombinerOptions(node)
        text == IF Truthy(node.metadata) THEN ButtonText(items, chosen) ELSE Return(UNDEFINED)
    IN IF metadata.thrown \/ parentSchemaNode.thrown \/ text.thrown THEN ExceptionRow
       ELSE [kind |-> "property",
             select |-> Truthy(node.metadata),
             text |-> text.value,
             required |-> isRequired(node)]

SchemaRow(node, state) ==
    LET metadata == getNodeMetadata(node)
    IN IF metadata.thrown THEN ExceptionRow
       ELSE IF metadata.value.kind = "schema" THEN SchemaPropertyRow(node, state)
       ELSE SchemaErrorRow(metadata.value.error)

\* The wrapper without its onClick.
SelectClickReachesRow_NotStopped == TRUE

\* The wrapper of the select stops the click (onClick={e => e.stopPropagation()}),
\* so picking an item emits no NodeClick for the row.
SelectClickReachesRow == FALSE

\* onItemSelect: the calls it makes, in order.
onItemSelect(node, items, item, path) ==
    LET index == indexOf(items.elems, item)
    IN <<[fn |-> "setChoiceForNode", id |-> node.id, index |-> index],
         [fn |-> "populateCombiner", node |-> node.id, schema |-> item,
          path |-> path \o <<Num(NumberText(index))>>, eager |-> FALSE]>>

\* utils/addChildrenToTreeListNode: the node gets a `children` list if it had none.
addChildrenToTreeListNode(ch) == IF ch = UNDEFINED THEN Arr(<<>>) ELSE ch

\* tree.populateCombiner: the node's children become those of the given
\* schema at the given path (an object branch has one property, any other none).
populateCombiner(ch, schema, path, eager) ==
    Arr([j \in 1..(IF schema.type = Str("object") THEN 1 ELSE 0) |->
            [schema |-> schema, path |-> path, eager |-> eager]])

(***************************************************************************)
(* SchemaTree.tsx: the effect on [treeStore].                              *)
(***************************************************************************)
\* The listener without its `'children' in node` test.
NodeClickListener_Always(s, n, ch) == <<[fn |-> "toggleExpand", store |-> s, node |-> n]>>

\* The listener given to treeStore.events.on(NodeClick, ...): its calls.
NodeClickListener(s, n, ch) ==
    IF isParentNode(ch) THEN <<[fn |-> "toggleExpand", store |-> s, node |-> n]>> ELSE <<>>

\* The effect body: one listener registered on the store.
EffectSubscribe(h, s) == [h EXCEPT ![s] = @ + 1]

\* TreeStore.dispose of tree-list: the store is disposed, its listeners released.
dispose(host, s) ==
    [handlers |-> [host.handlers EXCEPT ![s] = 0], disposed |-> host.disposed \cup {s}]

\* A cleanup that does not dispose the store.
EffectCleanup_NoDispose(host, s) == host

\* The effect's cleanup.
EffectCleanup(host, s) == dispose(host, s)

\* What an emitted NodeClick makes the store's listeners call.
RECURSIVE Emit(_, _, _, _)
Emit(k, s, n, ch) ==
    IF k = 0 THEN <<>> ELSE NodeClickListener(s, n, ch) \o Emit(k - 1, s, n, ch)

\* TreeStore.toggleExpand applied once per call.
Toggled(exp, cs) ==
    IF Len(cs) % 2 = 1 THEN [exp EXCEPT ![cs[1].store][cs[1].node] = ~@] ELSE exp

NoRow == [kind |-> "none"]

Mount(s) ==
    /\ bound = 0
    /\ s \in available \ disposed
    /\ bound' = s
    /\ handlers' = EffectSubscribe(handlers, s)
    /\ event' = [type |-> "mount", store |-> s]
    /\ calls' = <<[fn |-> "events.on", store |-> s]>>
    /\ row' = NoRow
    /\ UNCHANGED <<metadataStore, nodeMetadata, available, disposed, expanded, children,
                   choices, written, pureVars>>

Unmount ==
    /\ bound # 0
    /\ LET host == EffectCleanup([handlers |-> handlers, disposed |-> disposed], bound)
       IN handlers' = host.handlers /\ disposed' = host.disposed
    /\ bound' = 0
    /\ event' = [type |-> "unmount", store |-> bound]
    /\ calls' = <<[fn |-> "dispose", store |-> bound]>>
    /\ row' = NoRow
    /\ UNCHANGED <<metadataStore, nodeMetadata, available, expanded, children, choices,
                   written, pureVars>>

\* The treeStore prop changes: the cleanup for the old store, the effect for the new.
Rebind(s) ==
    /\ bound # 0
    /\ s \in available \ disposed
    /\ s # bound
    /\ LET host == EffectCleanup([handlers |-> handlers, disposed |-> disposed], bound)
       IN handlers' = EffectSubscribe(host.handlers, s) /\ disposed' = host.disposed
    /\ bound' = s
    /\ event' = [type |-> "rebind", store |-> bound, to |-> s]
    /\ calls' = <<[fn |-> "dispose", store |-> bound], [fn |-> "events.on", store |-> s]>>
    /\ row' = NoRow
    /\ UNCHANGED <<metadataStore, nodeMetadata, available, expanded, children, choices,
                   written, pureVars>>

\* The store s emits NodeClick for node n.
NodeClick(s, n) ==
    /\ s \in available
    /\ LET cs == Emit(handlers[s], s, n, children[s][n])
       IN calls' = cs /\ expanded' = Toggled(expanded, cs)
    /\ event' = [type |-> "NodeClick", store |-> s, node |-> n]
    /\ row' = NoRow
    /\ UNCHANGED <<metadataStore, nodeMetadata, available, bound, disposed, handlers,
                   children, choices, written, pureVars>>

\* The list renders the row of node n of the bound store.
RenderRow(n) ==
    /\ bound # 0
    /\ row' = SchemaRow(NodeOf(n), choices[bound])
    /\ event' = [type |-> "render", store |-> bound, node |-> n]
    /\ calls' = <<>>
    /\ UNCHANGED <<metadataStore, nodeMetadata, available, bound, disposed, handlers,
                   expanded, children, choices, written, pureVars>>

\* The user picks the item at position k (from 0) of the select of node n.
SelectBranch(n, k) ==
    /\ bound # 0
    /\ LET node == NodeOf(n)
           rendered == SchemaRow(node, choices[bound])
           items == getCombinerOptions(node)
       IN /\ rendered.kind = "property" /\ rendered.select
          /\ k + 1 \in DOMAIN items.elems
          /\ LET cs == onItemSelect(node, items, items.elems[k + 1],
                                    getSchemaNodeMetadata(node).value.path)
                 populated == populateCombiner(addChildrenToTreeListNode(children[bound][n]),
                                               cs[2].schema, cs[2].path, cs[2].eager)
                 bubbled == IF SelectClickReachesRow
                            THEN Emit(handlers[bound], bound, n, populated) ELSE <<>>
             IN /\ choices' = [choices EXCEPT ![bound] = setChoiceForNode(@, cs[1].id, cs[1].index)]
                /\ written' = [written EXCEPT ![bound][cs[1].id] = cs[1].index]
                /\ children' = [children EXCEPT ![bound][cs[2].node] = populated]
                /\ expanded' = Toggled(expanded, bubbled)
                /\ calls' = cs \o bubbled
    /\ event' = [type |-> "select", store |-> bound, node |-> n, branch |-> k]
    /\ row' = NoRow
    /\ UNCHANGED <<metadataStore, nodeMetadata, available, bound, disposed, handlers, pureVars>>

SeqsUpTo(S, n) == UNION {[1..k -> S] : k \in 0..n}

\* What node.metadata may be: nothing, an object without `properties`, or an
\* object whose `properties` lists up to MaxBranches branch schemas (the same
\* schema object may be listed twice).
NodeMetadataChoices ==
    {UNDEFINED, Obj(EmptyDict)}
    \cup {Obj([k \in {"properties"} |-> Arr(bs)]) :
            bs \in SeqsUpTo({BranchSchema(1), BranchSchema(2)}, MaxBranches)}

RootSchema == Schema(Str("object"), Arr(<<Str("id")>>), UNDEFINED)

PropertyEntries(n) ==
    {ErrorEntry("unresolved $ref"),
     SchemaEntry(Schema(Str("string"), UNDEFINED, UNDEFINED),
                 <<Str("properties"), Str(PropertyNames[n - 1])>>)}

\* The sibling is no combiner or one with the two branches.
SiblingMetadataChoices ==
    {UNDEFINED, Obj([k \in {"properties"} |-> Arr(<<BranchSchema(1), BranchSchema(2)>>)])}

TreeInputs ==
    /\ \E m2 \in NodeMetadataChoices, m3 \in SiblingMetadataChoices :
           nodeMetadata = [n \in Nodes |-> CASE n = 2 -> m2 [] n = 3 -> m3 [] OTHER -> UNDEFINED]
    /\ \E e3 \in PropertyEntries(3) :
           metadataStore =
               [n \in Nodes |->
                   CASE n = 0 -> MissingEntry
                     [] n = 1 -> SchemaEntry(RootSchema, <<>>)
                     [] n = 3 -> e3
                     [] OTHER -> SchemaEntry(Schema(Str("string"), UNDEFINED, UNDEFINED),
                                             <<Str("properties"), Str(PropertyNames[n - 1])>>)]

TreeState ==
    /\ bound = 0 /\ disposed = {}
    /\ handlers = [s \in Stores |-> 0]
    /\ expanded = [s \in Stores |-> [n \in Nodes |-> FALSE]]
    /\ children = [s \in Stores |-> [n \in Nodes |->
                      IF StaticChildren(n) = <<>> THEN UNDEFINED ELSE Arr(StaticChildren(n))]]
    /\ choices = [s \in Stores |-> EmptyChoiceState]
    /\ written = [s \in Stores |-> [n \in Nodes |-> 0 - 1]]
    /\ event = [type |-> "none"] /\ calls = <<>> /\ row = NoRow

Init ==
    /\ IdleRequired /\ IdleExtract /\ IdlePresent
    /\ TreeInputs /\ TreeState
    /\ available = {1}

Next ==
    \/ \E s \in Stores : Mount(s)
    \/ Unmount
    \/ \E s \in Stores, n \in Rows : NodeClick(s, n)
    \/ \E n \in Rows : RenderRow(n)
    \/ \E n \in Rows, k \in 0..(MaxBranches - 1) : SelectBranch(n, k)

Spec == Init /\ [][Next]_vars

\* The host application holds two stores and may re-bind the tree to the other.
InitHost ==
    /\ IdleRequired /\ IdleExtract /\ IdlePresent
    /\ TreeInputs /\ TreeState
    /\ nodeMetadata[2] \in SiblingMetadataChoices
    /\ nodeMetadata[3] = UNDEFINED
    /\ metadataStore[3].kind = "schema"
    /\ available = Stores

NextHost ==
    \/ Next
    \/ \E s \in Stores : Rebind(s)

SpecHost == InitHost /\ [][NextHost]_vars

(***************************************************************************)
(* Claims about the tree host and its rows (Spec, SpecHost).               *)
(***************************************************************************)
\* C1: the index the row of a node reads from ChoiceState is the index most
\* recently given to setChoiceForNode for that node's id, and 0 for an id never
\* written; so a write under one id changes the value read for no other id.
C1_ChoiceReadsLastWrite ==
    \A s \in Stores, n \in Nodes :
        chosenPropertyIndex(choices[s], NodeOf(n))
            = IF written[s][n] < 0 THEN 0 ELSE written[s][n]

\* Node 3 written with 0, node 2 with 1, node 1 never written.
C1_Witness ==
    \E s \in Stores :
        /\ written[s][2] = 1 /\ written[s][3] = 0 /\ written[s][1] < 0
        /\ getChoiceForNode(choices[s], 2) = 1
        /\ getChoiceForNode(choices[s], 3) = 0
        /\ getChoiceForNode(choices[s], 1) = 0

InitialChildren(n) == IF StaticChildren(n) = <<>> THEN UNDEFINED ELSE Arr(StaticChildren(n))

\* C3: when the user picks branch k of node n the handler first writes k under
\* n's id and then repopulates n's children from branch k's schema at the
\* node's path extended by k, not eagerly, replacing the children it had; and a
\* node's children are populated from a branch only after a selection on it.
C3_SelectWritesThenPopulates ==
    /\ event.type = "select" =>
           LET s == event.store
               n == event.node
               k == event.branch
               node == NodeOf(n)
               branch == getCombinerOptions(node).elems[k + 1]
               path == metadataStore[n].path \o <<Num(NumberText(k))>>
           IN /\ calls = <<[fn |-> "setChoiceForNode", id |-> n, index |-> k],
                           [fn |-> "populateCombiner", node |-> n, schema |-> branch,
                            path |-> path, eager |-> FALSE]>>
              /\ getChoiceForNode(choices[s], n) = k
              /\ children[s][n] = populateCombiner(UNDEFINED, branch, path, FALSE)
    /\ \A s \in Stores, n \in Nodes :
           children[s][n] # InitialChildren(n) => written[s][n] >= 0

C4_Toggled(s, n) == expanded' = [expanded EXCEPT ![s][n] = ~@]

\* C4 as amended: a node-click on the bound store for a node without a
\* `children` list changes no expand flag, and one for a node with a
\* `children` list, empty or not, toggles exactly that node's flag.
C4_ClickTogglesParentNodes ==
    [][(event'.type = "NodeClick" /\ event'.store = bound) =>
           IF children[event'.store][event'.node] = UNDEFINED
           THEN expanded' = expanded
           ELSE C4_Toggled(event'.store, event'.node)]_vars

\* C4 as stated: a node-click for a node that has no children changes no
\* expand flag, and one for a node that has children toggles exactly that
\* node's flag.
C4_ClickTogglesNodesWithChildren ==
    [][(event'.type = "NodeClick" /\ event'.store = bound) =>
           IF \/ children[event'.store][event'.node] = UNDEFINED
              \/ children[event'.store][event'.node].elems = <<>>
           THEN expanded' = expanded
           ELSE C4_Toggled(event'.store, event'.node)]_vars

\* A click has expanded a node whose `children` list is empty.
C4_Witness ==
    /\ event.type = "NodeClick" /\ event.store = bound
    /\ children[event.store][event.node] = Arr(<<>>)
    /\ calls = <<[fn |-> "toggleExpand", store |-> event.store, node |-> event.node]>>
    /\ expanded[event.store][event.node]

\* C5: a branch selection changes no expand flag of any node, and a
\* node-click changes no entry of ChoiceState.
C5_Orthogonal ==
    [][/\ event'.type = "select" => expanded' = expanded
       /\ event'.type = "NodeClick" => choices' = choices]_vars

\* A click has expanded a node on which branch 1 was selected while it was
\* collapsed, and the choice is still 1.
C5_Witness ==
    /\ event.type = "NodeClick" /\ event.store = bound
    /\ Len(calls) = 1
    /\ expanded[event.store][event.node]
    /\ written[event.store][event.node] = 1
    /\ getChoiceForNode(choices[event.store], event.node) = 1

C8_NoBranchList(n) ==
    nodeMetadata[n] = UNDEFINED
        \/ getCombinerOptions(NodeOf(n)) \in {UNDEFINED, Arr(<<>>)}

\* C8: no render of a row ends in an exception: a node with an error
\* placeholder gives an error row, a node with schema metadata and no combiner
\* branch list gives a property row, and a failed required lookup gives
\* required = false.
C8_RenderNeverThrows ==
    event.type = "render" =>
        /\ row.kind # "exception"
        /\ metadataStore[event.node].kind = "error" => row.kind = "error"
        /\ (metadataStore[event.node].kind = "schema" /\ C8_NoBranchList(event.node))
               => row.kind = "property"
        /\ (row.kind = "property" /\ getNodeMetadata(NodeOf(event.node).parent).thrown)
               => ~row.required

C10_ChoiceIndexInRange ==
    \A s \in Stores, n \in Rows :
        (metadataStore[n].kind = "schema" /\ Truthy(nodeMetadata[n])) =>
            LET items == getCombinerOptions(NodeOf(n))
                index == chosenPropertyIndex(choices[s], NodeOf(n))
            IN /\ items # UNDEFINED
               /\ 0 <= index /\ index < Len(items.elems)
               /\ written[s][n] < Len(items.elems)

(***************************************************************************)
(* SpecRequired: isRequired applied to a drawn node.                       *)
(***************************************************************************)
SamplePaths ==
    {<<>>, <<Str("id")>>, <<Str("name")>>, <<Str("1")>>, <<Num("1")>>,
     <<Str("properties"), Str("id")>>, <<Str("items"), Num("0")>>}

SampleRequired ==
    {UNDEFINED, Bool("true"), Arr(<<>>), Arr(<<Str("id")>>), Arr(<<Str("1")>>),
     Arr(<<Num("1")>>), Arr(<<Str("name"), Str("0")>>)}

SampleTypes == {UNDEFINED, Str("object"), Str("array"), Str("string")}

SampleItems ==
    {UNDEFINED,
     Schema(Str("object"), Arr(<<Str("id")>>), UNDEFINED),
     Schema(Str("object"), Arr(<<Str("0"), Str("1")>>), UNDEFINED),
     Schema(Str("string"), Arr(<<Str("id")>>), UNDEFINED),
     Arr(<<Schema(Str("object"), Arr(<<Str("id")>>), UNDEFINED)>>)}

SampleSchemas ==
    {Schema(ty, req, items) : ty \in SampleTypes, req \in SampleRequired, items \in SampleItems}

SampleParents ==
    {NULL}
    \cup {TreeNode(1, NULL, e, UNDEFINED) :
            e \in {MissingEntry, ErrorEntry("unresolved $ref")}
                  \cup {SchemaEntry(sc, <<>>) : sc \in SampleSchemas}}

SampleNodes ==
    {TreeNode(2, p, e, UNDEFINED) :
        p \in SampleParents,
        e \in {MissingEntry, ErrorEntry("unresolved $ref")}
              \cup {SchemaEntry(Schema(Str("string"), UNDEFINED, UNDEFINED), path) :
                      path \in SamplePaths}}

InitRequired ==
    /\ IdleTree /\ IdleExtract /\ IdlePresent
    /\ treeNode \in SampleNodes
    /\ required = <<>>

\* The row asks whether its node is required (Validations required={isRequired(node)}).
CheckRequired ==
    /\ treeNode # NULL
    /\ required = <<>>
    /\ required' = <<isRequired(treeNode)>>
    /\ UNCHANGED <<treeNode, treeVars, extractVars, presentVars>>

NextRequired == CheckRequired

SpecRequired == InitRequired /\ [][NextRequired]_vars

(***************************************************************************)
(* SpecExtract: getValidationsFromSchema applied to a drawn schema node,   *)
(* at most MaxExtractions times in a row.                                  *)
(***************************************************************************)
MaxExtractions == 2

SampleFormats ==
    {NULL, Str("int32"), Str("int64"), Str("float"), Str("double"), Str("byte"),
     Str("date-time"), Str("constructor")}

SampleMinimum ==
    {Num("-2147483648"), Num("-9223372036854776000"), Num("-3.402823669209385e+38"),
     Num("-1.7976931348623157e+308"), Num("0")}
SampleMaximum ==
    {Num("2147483647"), Num("9223372036854776000"), Num("3.402823669209385e+38"),
     Num("1.7976931348623157e+308"), Num("0")}
SamplePattern == {Str("^[\\w\\d+\\/=]*$"), Str("^a$")}
SampleMultipleOf == {Num("2")}

\* Every mapping that gives each key of `choice` either nothing or one of its values.
RECURSIVE DictsOver(_, _)
DictsOver(ks, choice) ==
    IF ks = {} THEN {EmptyDict}
    ELSE LET k == CHOOSE x \in ks : TRUE
             rest == DictsOver(ks \ {k}, choice)
         IN rest \cup {Merge(d, [x \in {k} |-> v]) : d \in rest, v \in choice[k]}

ExtractChoice ==
    [k \in {"minimum", "maximum", "pattern", "multipleOf"} |->
        CASE k = "minimum" -> SampleMinimum
          [] k = "maximum" -> SampleMaximum
          [] k = "pattern" -> SamplePattern
          [] OTHER -> SampleMultipleOf]

SampleAnnotations ==
    {[default |-> UNDEFINED, examples |-> UNDEFINED],
     [default |-> Num("0"), examples |-> UNDEFINED],
     [default |-> Str("x"), examples |-> Arr(<<Str("x")>>)]}

SampleSchemaNodes ==
    {[format |-> f, enum |-> e, hasAnnotations |-> TRUE, annotations |-> a, validations |-> v] :
        f \in SampleFormats, e \in {NULL, Arr(<<Str("a"), Str("b")>>)},
        a \in SampleAnnotations,
        v \in DictsOver(DOMAIN ExtractChoice, ExtractChoice)}
    \cup
    {[format |-> f, enum |-> NULL, hasAnnotations |-> FALSE, validations |-> v] :
        f \in SampleFormats, v \in DictsOver(DOMAIN ExtractChoice, ExtractChoice)}

InitExtract ==
    /\ IdleTree /\ IdleRequired /\ IdlePresent
    /\ schemaNode \in SampleSchemaNodes
    /\ extracted = <<>>

\* One call of getValidationsFromSchema(schemaNode).
Extract ==
    /\ schemaNode # NULL
    /\ Len(extracted) < MaxExtractions
    /\ LET r == getValidationsFromSchema(schemaNode)
       IN /\ extracted' = Append(extracted, r.ret)
          /\ schemaNode' = r.node
    /\ UNCHANGED <<treeVars, requiredVars, presentVars>>

NextExtract == Extract

SpecExtract == InitExtract /\ [][NextExtract]_vars

(***************************************************************************)
(* SpecPresent: the Validations component rendered on a drawn mapping.     *)
(***************************************************************************)
SampleFlags == {Bool("true"), Bool("false"), Str("true"), Num("1")}

PresentChoice ==
    [k \in {"minimum", "maxLength", "exclusiveMinimum", "readOnly", "deprecated",
            "examples", "enum", "pattern"} |->
        CASE k \in {"minimum", "maxLength"} -> {Num("1"), Bool("true"), Str("false")}
          [] k \in {"exclusiveMinimum", "readOnly", "deprecated"} -> SampleFlags
          [] k = "examples" -> {Arr(<<Str("true")>>), Arr(<<Str("a"), Str("b")>>)}
          [] k = "enum" -> {Arr(<<Bool("false")>>), Arr(<<Str("a"), Str("b")>>)}
          [] OTHER -> {Str("^a$"), Str("true")}]

InitPresent ==
    /\ IdleTree /\ IdleRequired /\ IdleExtract
    /\ validations \in DictsOver(DOMAIN PresentChoice, PresentChoice)
    /\ hideExamples \in BOOLEAN
    /\ buckets = <<>>

\* One render of <Validations validations hideExamples />.
Present ==
    /\ buckets = <<>>
    /\ validations # EmptyDict
    /\ buckets' = <<Validations(validations, hideExamples)>>
    /\ UNCHANGED <<validations, hideExamples, treeVars, requiredVars, extractVars>>

NextPresent == Present

SpecPresent == InitPresent /\ [][NextPresent]_vars


(***************************************************************************)
(* Claims about isRequired (SpecRequired).                                 *)
(***************************************************************************)
\* The schema the claim calls "the parent's schema": the parent's items when
\* the parent is an array node with items, NULL when the parent carries no
\* schema metadata.
C2_ParentSchema(node) ==
    LET e == node.parent.entry
    IN IF e.kind # "schema" THEN NULL
       ELSE IF e.schemaNode.type = Str("array") /\ e.schemaNode.items # UNDEFINED
            THEN e.schemaNode.items
            ELSE e.schema

C2_Expected(node) ==
    /\ node.parent # NULL
    /\ node.entry.path # <<>>
    /\ LET ps == C2_ParentSchema(node)
           last == node.entry.path[Len(node.entry.path)]
       IN /\ ps.t = "schema"
          /\ ps.type = Str("object")
          /\ ps.required.t = "array"
          /\ Str(last.v) \in Range(ps.required.elems)

\* C2: for a node that carries schema metadata, isRequired is false when the
\* node is the root or its path is empty, and otherwise true exactly when the
\* parent's schema (its items for an array parent with items) has primary type
\* object and its required list contains the stringified last path segment.
C2_IsRequired ==
    (required # <<>> /\ treeNode.entry.kind = "schema")
        => (required[1] <=> C2_Expected(treeNode))

\* A numeric last segment found, stringified, in the required list of the
\* items of an array parent.
C2_Witness ==
    /\ required = <<TRUE>>
    /\ treeNode.entry.kind = "schema"
    /\ treeNode.entry.path[Len(treeNode.entry.path)].t = "number"
    /\ isArrayNodeWithItems(treeNode.parent.entry.schemaNode)

(***************************************************************************)
(* Claims about getValidationsFromSchema (SpecExtract).                    *)
(***************************************************************************)
C6_Preset(node) ==
    IF node.format # NULL /\ node.format.v \in DOMAIN oasFormats
    THEN oasFormats[node.format.v] ELSE EmptyDict

C6_Implied(node, k) ==
    k \in DOMAIN C6_Preset(node) /\ k \in DOMAIN node.validations
        /\ node.validations[k] = C6_Preset(node)[k]

\* C6: every extraction returns a mapping that has no preset key with the
\* preset's implied value, keeps every other declared validation entry, leaves
\* the schema node as it was, and equals the mappings extracted before.
C6_ExtractDropsImplied ==
    [][extracted' # extracted =>
        LET out == extracted'[Len(extracted')]
            preset == C6_Preset(schemaNode)
        IN /\ \A k \in DOMAIN preset : ~(k \in DOMAIN out /\ out[k] = preset[k])
           /\ \A k \in DOMAIN schemaNode.validations :
                  ~C6_Implied(schemaNode, k)
                      => (k \in DOMAIN out /\ out[k] = schemaNode.validations[k])
           /\ schemaNode' = schemaNode
           /\ \A i \in DOMAIN extracted : extracted[i] = out]_vars

\* Two extractions of an int32 node: the implied minimum dropped, a declared
\* maximum that differs from the preset kept.
C6_Witness ==
    /\ Len(extracted) = 2
    /\ schemaNode.format = Str("int32")
    /\ C6_Implied(schemaNode, "minimum")
    /\ "minimum" \notin DOMAIN extracted[2]
    /\ "maximum" \in DOMAIN schemaNode.validations
    /\ "maximum" \in DOMAIN extracted[2]

(***************************************************************************)
(* Claims about the Validations partition (SpecPresent).                   *)
(***************************************************************************)
C7_Bucket(k) ==
    IF k \in Range(numberValidationNames) THEN "number"
    ELSE IF StringifiesToBoolean(validations[k]) /\ k \notin Range(excludedValidations)
         THEN "boolean"
    ELSE IF k \in Range(excludedValidations) \/ (k = "examples" /\ hideExamples)
         THEN "none"
    ELSE "keyValue"

\* C7: every key is in the numeric bucket exactly when it is a numeric name,
\* otherwise in the boolean bucket exactly when its value stringifies to true
\* or false and it is not excluded, otherwise in the keyed bucket unless it is
\* excluded or is `examples` with hideExamples; so no key is in two buckets.
C7_PartitionRule ==
    buckets # <<>> =>
        \A k \in DOMAIN validations :
            /\ (k \in DOMAIN buckets[1].number) <=> (C7_Bucket(k) = "number")
            /\ (k \in DOMAIN buckets[1].boolean) <=> (C7_Bucket(k) = "boolean")
            /\ (k \in DOMAIN buckets[1].keyValue) <=> (C7_Bucket(k) = "keyValue")


====
